---- MODULE Spec2Model ----
(***************************************************************************)
(* The two gallery notebooks of the repository as one state machine.       *)
(*                                                                         *)
(*   nb = "vort"  pages/gallery/500hPa_Vorticity_Advection.ipynb           *)
(*                (siphon catalog + NCSS subset query, MetPy calculations) *)
(*   nb = "xr"    unnamed/part_000  (xarray over OPeNDAP)                  *)
(*                                                                         *)
(* A run executes the statements of its notebook top to bottom; pc names   *)
(* the next statement group.  Whatever the remote archive serves is chosen *)
(* in Init (remote); arrays are symbolic terms (records with an op field), *)
(* so a selected slice is identified by the coordinates it is stored at.   *)
(***************************************************************************)
EXTENDS Integers, Sequences, FiniteSets

(* ---------------------------- bounds ---------------------------------- *)
MaxTimes == 2        \* longest time coordinate array served
MaxLevels == 2       \* longest vertical coordinate array served

(* ------------------------- value universes ---------------------------- *)
Years == {2016}
Months == {1, 11}
Days == {1, 11}
Hours == {0, 6, 18}
Minutes == {0, 30}

\* datetime(year, month, day, hour[, minute]): the values dt can take
DateTimes ==
    [year : Years, month : Months, day : Days, hour : Hours, minute : Minutes]

\* The archive encodes a time coordinate as whole hours since a reference
\* instant (the units attribute); every served product uses this reference.
RefDate == [year |-> 2016, month |-> 11]
HourOffsets == {0, 6, 18}

\* pressure levels (hPa) that can occur in a served vertical coordinate
Levels == {300, 500, 700}

VarNames == {"Geopotential_height_isobaric",
             "u-component_of_wind_isobaric",
             "v-component_of_wind_isobaric"}

\* dimensions of each of the three isobaric variables, outermost first
Dims == <<"time1", "isobaric", "y", "x">>

\* LambertConformal_Projection attributes a served product can carry
Projections ==
    { [latitude_of_projection_origin |-> 25, longitude_of_central_meridian |-> 265,
       standard_parallel |-> 25, earth_radius |-> 6371229],
      [latitude_of_projection_origin |-> 40, longitude_of_central_meridian |-> 262,
       standard_parallel |-> 40, earth_radius |-> 6367470] }

(* --------------------------- sequences -------------------------------- *)
Range(s) == {s[i] : i \in 1..Len(s)}

\* strictly increasing coordinate arrays over S, of length 1..n
CoordArrays(S, n) ==
    {s \in UNION {[1..k -> S] : k \in 1..n} :
        \A i \in 1..(Len(s) - 1) : s[i] < s[i + 1]}

\* the 0-based positions of s that hold v, in increasing order (np.where(s == v)[0])
RECURSIVE WhereEq(_, _, _)
WhereEq(s, v, from) ==
    IF from > Len(s) THEN <<>>
    ELSE IF s[from] = v THEN <<from - 1>> \o WhereEq(s, v, from + 1)
         ELSE WhereEq(s, v, from + 1)

(* ------------------- strftime fields and request paths ---------------- *)
Digits == <<"0", "1", "2", "3", "4", "5", "6", "7", "8", "9">>

\* %Y: the decimal digits of the year
RECURSIVE Dec(_)
Dec(n) == IF n < 10 THEN Digits[n + 1] ELSE Dec(n \div 10) \o Digits[(n % 10) + 1]

\* (variant: %-m style fields, written without the leading zero)
Pad2Unpadded(n) == Dec(n)

\* %m, %d, %H: two decimal digits, zero padded
Pad2(n) == Digits[((n \div 10) % 10) + 1] \o Digits[(n % 10) + 1]

FmtYm(d) == Dec(d.year) \o Pad2(d.month)
FmtYmd(d) == Dec(d.year) \o Pad2(d.month) \o Pad2(d.day)
FmtH(d) == Pad2(d.hour)

\* vorticity notebook: f'{base_url}{dt:%Y%m}/{dt:%Y%m%d}/catalog.xml'
CatalogDir(d) == FmtYm(d) \o "/" \o FmtYmd(d) \o "/"
CatalogUrl(d) ==
    "https://www.ncei.noaa.gov/thredds/catalog/model-namanl-old/"
        \o CatalogDir(d) \o "catalog.xml"

\* vorticity notebook: cat.datasets[f'namanl_218_{dt:%Y%m%d}_{dt:%H}00_000.grb']
CatalogDatasetName(d) ==
    "namanl_218_" \o FmtYmd(d) \o "_" \o FmtH(d) \o "00_000.grb"

\* xarray notebook: the two path parts of the OPeNDAP URL
OpendapDir(d) == FmtYm(d) \o "/" \o FmtYmd(d) \o "/"
OpendapDatasetName(d) ==
    "namanl_218_" \o FmtYmd(d) \o "_" \o FmtH(d) \o "00_000.grb"
OpendapUrl(d) ==
    "https://www.ncei.noaa.gov/thredds/dodsC/model-namanl-old/"
        \o OpendapDir(d) \o OpendapDatasetName(d)

(* ------------------------- time conversions --------------------------- *)
\* netCDF4.num2date(h, units='Hour since <RefDate>'): offsets to datetimes.
\* The reference instant is the first hour of the first day of RefDate.
Num2DateOne(h) ==
    [year |-> RefDate.year, month |-> RefDate.month,
     day |-> (h \div 24) + 1, hour |-> h % 24, minute |-> 0]

\* ndarray.squeeze() of a one-dimensional array: a size-1 array loses its axis
Squeeze(arr) ==
    IF Len(arr) = 1 THEN [shape |-> <<>>, data |-> arr]
    ELSE [shape |-> <<Len(arr)>>, data |-> arr]

\* num2date of a squeezed array: one datetime for a 0-d input, an array of
\* datetimes otherwise
Num2Date(a) ==
    [shape |-> a.shape, data |-> [i \in 1..Len(a.data) |-> Num2DateOne(a.data[i])]]

\* xarray decode_times=True: hour offsets become datetime64[ns], kept here as
\* whole seconds since the reference instant plus the nanoseconds within it
Decode64(h) == [ref |-> RefDate, sec |-> h * 3600, nsec |-> 0]

\* data.time[t].data.astype('O') / 1e9: integer nanoseconds to float seconds
\* (a float keeps microsecond resolution at this magnitude)
AsSeconds(t64) == [sec |-> t64.sec, usec |-> t64.nsec \div 1000]

\* datetime.utcfromtimestamp(seconds)
UtcFromTimestamp(ts) ==
    [year |-> RefDate.year, month |-> RefDate.month,
     day |-> (ts.sec \div 86400) + 1,
     hour |-> (ts.sec % 86400) \div 3600,
     minute |-> (ts.sec % 3600) \div 60]

\* the datetime64[ns] an index lookup converts a datetime key to
ToDatetime64(d) ==
    [ref |-> [year |-> d.year, month |-> d.month],
     sec |-> (((d.day - 1) * 24 + d.hour) * 60 + d.minute) * 60, nsec |-> 0]

\* the valid time a decoded coordinate value stands for
ValidOf64(t64) == UtcFromTimestamp(AsSeconds(t64))

(* ------------------------------ arrays -------------------------------- *)
\* An array or quantity is a term: the operation that made it, its operand
\* terms, and what the operation carries along: the physical unit, the power
\* of ten it has been multiplied by, and the valid times, levels and grids of
\* the stored slices it was computed from.
Term(op, tag, sigma, args, units, scale, times, levels, grids) ==
    [op |-> op, tag |-> tag, sigma |-> sigma, args |-> args, units |-> units,
     scale |-> scale, times |-> times, levels |-> levels, grids |-> grids]

Unbound == Term("unbound", "", 0, <<>>, "", 0, {}, {}, {})

TimesOf(args) == UNION {args[i].times : i \in 1..Len(args)}
LevelsOf(args) == UNION {args[i].levels : i \in 1..Len(args)}
GridsOf(args) == UNION {args[i].grids : i \in 1..Len(args)}

\* an operation of the calculation or filtering library applied to operands
Apply(op, sigma, args, units, scale) ==
    Term(op, "", sigma, args, units, scale, TimesOf(args), LevelsOf(args), GridsOf(args))

\* the 2-D array of variable v stored at valid time t and level l on grid g
StoredSlice(v, t, l, g) == Term("slice", v, 0, <<>>, "", 0, {t}, {l}, {g})

\* a pair of horizontal coordinate arrays of grid g, named kind
CoordPair(kind, g, units) == Term(kind, "", 0, <<>>, units, 0, {}, {}, {g})

\* scipy.ndimage.gaussian_filter(a, sigma=s, order=0): a new plain array
GaussianFilter(a, s) == Apply("gaussian_filter", s, <<a>>, "", a.scale)

\* a * units(u)  /  units(u) * a
WithUnits(a, u) == Apply("quantity", 0, <<a>>, u, a.scale)

\* q.m, xarray .data: the bare numbers of a quantity
Magnitude(q) == Apply("magnitude", 0, <<q>>, "", q.scale)

\* a * 10**k, a * 1e<k>
TimesTenTo(a, k) == Apply("times_ten_to", 0, <<a>>, a.units, a.scale + k)

(* --------------------------- served products -------------------------- *)
\* What the archive holds at the requested path: whether the service answers,
\* which variables the product has, its coordinate arrays (hour offsets and
\* hPa levels) and projection attributes.  All variables share one grid.
Products(notebook) ==
    { p \in [reachable : BOOLEAN,
             variables : {VarNames, VarNames \ {"v-component_of_wind_isobaric"}},
             time : CoordArrays(HourOffsets, MaxTimes),
             time1 : CoordArrays(HourOffsets, MaxTimes),
             isobaric : CoordArrays(Levels, MaxLevels),
             proj : Projections,
             grid : {"x/y"}] :
        \* the subset query returns one time axis; only the OPeNDAP dataset
        \* exposes a second coordinate named time
        notebook = "vort" => p.time = p.time1 }

NoData ==
    [reachable |-> FALSE, variables |-> {}, time |-> <<>>, time1 |-> <<>>,
     isobaric |-> <<>>, proj |-> CHOOSE p \in Projections : TRUE, grid |-> ""]

(* ------------------- coordinate reference systems --------------------- *)
Crs(kind, lat0, lon0, parallels, globe) ==
    [kind |-> kind, central_latitude |-> lat0, central_longitude |-> lon0,
     standard_parallels |-> parallels, globe |-> globe]

\* the mapping library's values for parameters a call leaves out
\* (an axis of 0 stands for an axis that is not given)
DefaultGlobe == [ellipse |-> "WGS84", semimajor_axis |-> 0, semiminor_axis |-> 0]
DefaultParallels == <<33, 45>>

NoCrs == Crs("", 0, 0, <<>>, DefaultGlobe)

\* ccrs.Globe(ellipse='sphere', semimajor_axis=r, semiminor_axis=r)
SphereGlobe(r) == [ellipse |-> "sphere", semimajor_axis |-> r, semiminor_axis |-> r]

\* ccrs.PlateCarree()
PlateCarree == Crs("PlateCarree", 0, 0, <<>>, DefaultGlobe)

\* plotcrs, the same call in both notebooks
PlotCrs == Crs("LambertConformal", 45, -100, <<30, 60>>, DefaultGlobe)

\* vorticity notebook: datacrs from dproj, with standard parallel and globe
DataCrsVort(dproj) ==
    Crs("LambertConformal", dproj.latitude_of_projection_origin,
        dproj.longitude_of_central_meridian, <<dproj.standard_parallel>>,
        SphereGlobe(dproj.earth_radius))

\* xarray notebook: datacrs from two attributes of LambertConformal_Projection
DataCrsXr(dproj) ==
    Crs("LambertConformal", dproj.latitude_of_projection_origin,
        dproj.longitude_of_central_meridian, DefaultParallels, DefaultGlobe)

(* ------------------------------ state --------------------------------- *)
VARIABLES
    nb,         \* which notebook runs: "vort" or "xr"
    dt,         \* date/time of product desired
    remote,     \* what the archive serves for the request
    pc,         \* next statement group, "done" or "aborted"
    error,      \* the exception that ended the run, "" if none
    requests,   \* requests issued to the archive, in order
    ds,         \* the fetched dataset (ds / data)
    lonlat,     \* lon, lat
    xy,         \* x, y
    vtime,      \* vtime
    vtimes,     \* vtimes
    lev_500,    \* <<index>> once bound
    hght_500, uwnd_500, vwnd_500,
    deltas,     \* dx, dy
    f,
    avor,
    vort_adv,
    fig         \* the figure

fields == <<hght_500, uwnd_500, vwnd_500>>
derived == <<deltas, f, avor, vort_adv>>
names == <<lonlat, xy, vtime, vtimes, lev_500>>
vars == <<nb, dt, remote, pc, error, requests, ds, names, fields, derived, fig>>

NoArray == [shape |-> <<>>, data |-> <<>>]

NoFigure ==
    [created |-> FALSE, projection |-> NoCrs, datacrs |-> NoCrs,
     title_left |-> <<>>, title_right |-> [label |-> "", stamps |-> <<>>],
     layers |-> <<>>, colorbar_label |-> ""]

Init ==
    /\ nb \in {"vort", "xr"}
    /\ dt \in DateTimes
    /\ remote \in Products(nb)
    /\ pc = IF nb = "vort" THEN "Fetch" ELSE "Open"
    /\ error = ""
    /\ requests = <<>>
    /\ ds = NoData
    /\ lonlat = Unbound /\ xy = Unbound
    /\ vtime = NoArray /\ vtimes = <<>> /\ lev_500 = <<>>
    /\ hght_500 = Unbound /\ uwnd_500 = Unbound /\ vwnd_500 = Unbound
    /\ deltas = Unbound /\ f = Unbound /\ avor = Unbound /\ vort_adv = Unbound
    /\ fig = NoFigure

\* (variant: the exception is caught and the run reports completion)
RaiseSwallowed(exc) ==
    /\ pc' = "done"
    /\ error' = exc

\* an uncaught exception ends the run: nothing after it executes
Raise(exc) ==
    /\ pc' = "aborted"
    /\ error' = exc

(* ===================== 500hPa_Vorticity_Advection ===================== *)
Request(url, dir, dataset) == [url |-> url, dir |-> dir, dataset |-> dataset]

\* Data Aquisition, first part: catalog, dataset lookup, subset query, get_data.
\* The service decides what the subset holds; a query it cannot answer (the
\* service is down, the product or one of the variables is missing) raises.
Fetch ==
    /\ nb = "vort" /\ pc = "Fetch"
    /\ requests' = Append(requests,
                          Request(CatalogUrl(dt), CatalogDir(dt), CatalogDatasetName(dt)))
    /\ IF remote.reachable /\ VarNames \subseteq remote.variables
       THEN /\ ds' = remote
            /\ pc' = "ReadCoords"
            /\ error' = error
       ELSE /\ Raise("HTTPError")
            /\ ds' = ds
    /\ UNCHANGED <<nb, dt, remote, names, fields, derived, fig>>

\* the time coordinate of the height variable: ds.variables[<var>.dimensions[0]]
TimeDimOf(d) == IF Dims[1] = "time1" THEN d.time1 ELSE d.time

\* lon, lat, times, vtime
ReadCoords ==
    /\ nb = "vort" /\ pc = "ReadCoords"
    /\ lonlat' = CoordPair("lon/lat", ds.grid, "degrees")
    /\ vtime' = Num2Date(Squeeze(TimeDimOf(ds)))
    /\ pc' = "FindLevel"
    /\ UNCHANGED <<nb, dt, remote, error, requests, ds, xy, vtimes, lev_500,
                   fields, derived, fig>>

\* lev_500 = np.where(ds.variables['isobaric'][:] == 500)[0][0]
FindLevel ==
    /\ nb = "vort" /\ pc = "FindLevel"
    /\ LET hits == WhereEq(ds.isobaric, 500, 1)
       IN  IF hits = <<>>
           THEN /\ Raise("IndexError")
                /\ lev_500' = lev_500
           ELSE /\ lev_500' = <<hits[1]>>
                /\ pc' = "SelectFields"
                /\ error' = error
    /\ UNCHANGED <<nb, dt, remote, requests, ds, lonlat, xy, vtime, vtimes,
                   fields, derived, fig>>

\* ds.variables[v][ti, li, :, :] with 0-based positions ti and li
SliceAt(d, v, ti, li) ==
    StoredSlice(v, Num2DateOne(TimeDimOf(d)[ti + 1]), d.isobaric[li + 1], d.grid)

HghtVort(d, li) ==
    WithUnits(GaussianFilter(SliceAt(d, "Geopotential_height_isobaric", 0, li), 3), "meter")

\* (variant: the u-wind is read one position above the level found)
UwndVortOtherLevel(d, li) ==
    WithUnits(SliceAt(d, "u-component_of_wind_isobaric", 0,
                      IF li > 0 THEN li - 1 ELSE li), "m/s")

UwndVort(d, li) == WithUnits(SliceAt(d, "u-component_of_wind_isobaric", 0, li), "m/s")

VwndVort(d, li) == WithUnits(SliceAt(d, "v-component_of_wind_isobaric", 0, li), "m/s")

\* hght_500 (smoothed, in metres), uwnd_500, vwnd_500 (in m/s)
SelectFields ==
    /\ nb = "vort" /\ pc = "SelectFields"
    /\ hght_500' = HghtVort(ds, lev_500[1])
    /\ uwnd_500' = UwndVort(ds, lev_500[1])
    /\ vwnd_500' = VwndVort(ds, lev_500[1])
    /\ pc' = "GridDeltas"
    /\ UNCHANGED <<nb, dt, remote, error, requests, ds, names, derived, fig>>

\* mpcalc.lat_lon_grid_deltas(lon, lat)
LatLonGridDeltas(ll) == Apply("lat_lon_grid_deltas", 0, <<ll>>, "meter", 0)

\* mpcalc.coriolis_parameter(np.deg2rad(lat)).to(units('1/sec'))
CoriolisParameter(ll) == Apply("coriolis_parameter", 0, <<ll>>, "1/s", 0)

\* dx, dy and f
GridDeltas ==
    /\ nb = "vort" /\ pc = "GridDeltas"
    /\ deltas' = LatLonGridDeltas(lonlat)
    /\ f' = CoriolisParameter(lonlat)
    /\ pc' = "Vorticity"
    /\ UNCHANGED <<nb, dt, remote, error, requests, ds, names, fields,
                   avor, vort_adv, fig>>

\* mpcalc.vorticity(u, v, dx, dy, dim_order='yx') + f
AbsoluteVorticity(u, v, d, cor) ==
    Apply("add", 0, <<Apply("vorticity", 0, <<u, v, d>>, "1/s", 0), cor>>, "1/s", 0)

Vorticity ==
    /\ nb = "vort" /\ pc = "Vorticity"
    /\ avor' = AbsoluteVorticity(uwnd_500, vwnd_500, deltas, f)
    /\ pc' = "Smooth"
    /\ UNCHANGED <<nb, dt, remote, error, requests, ds, names, fields,
                   deltas, f, vort_adv, fig>>

\* avor = ndimage.gaussian_filter(avor, sigma=3, order=0) * units('1/s')
SmoothedVorticity(a) == WithUnits(GaussianFilter(a, 3), "1/s")

Smooth ==
    /\ nb = "vort" /\ pc = "Smooth"
    /\ avor' = SmoothedVorticity(avor)
    /\ pc' = "Advection"
    /\ UNCHANGED <<nb, dt, remote, error, requests, ds, names, fields,
                   deltas, f, vort_adv, fig>>

\* (variant: the advection is taken of the field as it was before the filter)
VorticityAdvectionUnsmoothed(a, u, v, d) ==
    TimesTenTo(Apply("advection", 0, <<a.args[1].args[1], u, v, d>>, "1/s^2", 0), 9)

\* mpcalc.advection(avor, [u, v], (dx, dy), dim_order='yx') * 1e9
VorticityAdvection(a, u, v, d) ==
    TimesTenTo(Apply("advection", 0, <<a, u, v, d>>, "1/s^2", 0), 9)

Advection ==
    /\ nb = "vort" /\ pc = "Advection"
    /\ vort_adv' = VorticityAdvection(avor, uwnd_500, vwnd_500, deltas)
    /\ pc' = "MapVort"
    /\ UNCHANGED <<nb, dt, remote, error, requests, ds, names, fields,
                   deltas, f, avor, fig>>

(* ------------------------------ figures ------------------------------- *)
\* one drawing call: its kind, the coordinate arrays and fields it is given,
\* and its transform= argument
Layer(kind, coords, flds, transform) ==
    [kind |-> kind, coords |-> coords, fields |-> flds, transform |-> transform]

\* a quantity named in the left title, the power of ten it is said to be
\* multiplied by, and its unit
Titled(quantity, exp10, units) == [quantity |-> quantity, exp10 |-> exp10, units |-> units]

\* r'500-hPa Heights (m), AVOR$*10^5$ ($s^{-1}$), AVOR Adv$*10^8$ ($s^{-2}$)'
TitleLeftVort ==
    << Titled("500-hPa Heights", 0, "meter"),
       Titled("AVOR", 5, "1/s"),
       Titled("AVOR Adv", 8, "1/s^2") >>

\* f'VALID: {v}' writes every timestamp v holds
ValidTitle(stamps) == [label |-> "VALID: ", stamps |-> stamps]

\* the four drawing calls of the vorticity map, in order
LayersVort(ll, h, a, adv, u, v) ==
    << Layer("contour", ll, <<Magnitude(h)>>, PlateCarree),
       Layer("contour", ll, <<TimesTenTo(a, 5)>>, PlateCarree),
       Layer("contourf", ll, <<Magnitude(adv)>>, PlateCarree),
       Layer("barbs", ll, <<Magnitude(u), Magnitude(v)>>, PlateCarree) >>

\* Map Creation
MapVort ==
    /\ nb = "vort" /\ pc = "MapVort"
    /\ fig' = [created |-> TRUE,
               projection |-> PlotCrs,
               datacrs |-> DataCrsVort(ds.proj),
               title_left |-> TitleLeftVort,
               title_right |-> ValidTitle(vtime.data),
               layers |-> LayersVort(lonlat, hght_500, avor, vort_adv, uwnd_500, vwnd_500),
               colorbar_label |-> "1/s^2"]
    /\ pc' = "done"
    /\ UNCHANGED <<nb, dt, remote, error, requests, ds, names, fields, derived>>

(* ===================== xarray notebook (part_000) ===================== *)
\* xr.open_dataset(url, decode_times=True): fails when the service or the
\* product cannot be reached, otherwise yields the whole product, lazily
Open ==
    /\ nb = "xr" /\ pc = "Open"
    /\ requests' = Append(requests,
                          Request(OpendapUrl(dt), OpendapDir(dt), OpendapDatasetName(dt)))
    /\ IF remote.reachable
       THEN /\ ds' = remote
            /\ pc' = "Mesh"
            /\ error' = error
       ELSE /\ Raise("OSError")
            /\ ds' = ds
    /\ UNCHANGED <<nb, dt, remote, names, fields, derived, fig>>

\* x, y = np.meshgrid(data['x'].values * 1000, data['y'].values * 1000)
Mesh ==
    /\ nb = "xr" /\ pc = "Mesh"
    /\ xy' = CoordPair("x/y", ds.grid, "meter")
    /\ pc' = "ValidTimes"
    /\ UNCHANGED <<nb, dt, remote, error, requests, ds, lonlat, vtime, vtimes,
                   lev_500, fields, derived, fig>>

\* the loop over data.time: one datetime per entry of the time coordinate
VtimesOf(d) ==
    [t \in 1..Len(d.time) |-> UtcFromTimestamp(AsSeconds(Decode64(d.time[t])))]

ValidTimes ==
    /\ nb = "xr" /\ pc = "ValidTimes"
    /\ vtimes' = VtimesOf(ds)
    /\ pc' = "Select"
    /\ UNCHANGED <<nb, dt, remote, error, requests, ds, lonlat, xy, vtime,
                   lev_500, fields, derived, fig>>

\* data[v].sel(time1=key, isobaric=level): exact label lookup on both
\* coordinates; a missing variable or label is a KeyError
Sel(d, v, key, level) ==
    LET t64 == [i \in 1..Len(d.time1) |-> Decode64(d.time1[i])]
        ti == WhereEq(t64, ToDatetime64(key), 1)
        li == WhereEq(d.isobaric, level, 1)
    IN  IF v \notin d.variables \/ ti = <<>> \/ li = <<>>
        THEN [ok |-> FALSE, value |-> Unbound]
        ELSE [ok |-> TRUE,
              value |-> StoredSlice(v, ValidOf64(t64[ti[1] + 1]),
                                    d.isobaric[li[1] + 1], d.grid)]

HghtXr(d, vt) == Sel(d, "Geopotential_height_isobaric", vt[1], 500)
UwndXr(d, vt) == Sel(d, "u-component_of_wind_isobaric", vt[1], 500)
VwndXr(d, vt) == Sel(d, "v-component_of_wind_isobaric", vt[1], 500)

\* the three selections, in order; the first that fails ends the run and the
\* names assigned before it stay bound
Select ==
    /\ nb = "xr" /\ pc = "Select"
    /\ LET h == HghtXr(ds, vtimes)
           u == UwndXr(ds, vtimes)
           v == VwndXr(ds, vtimes)
       IN  /\ hght_500' = IF h.ok THEN h.value ELSE hght_500
           /\ uwnd_500' = IF h.ok /\ u.ok THEN u.value ELSE uwnd_500
           /\ vwnd_500' = IF h.ok /\ u.ok /\ v.ok THEN v.value ELSE vwnd_500
           /\ IF h.ok /\ u.ok /\ v.ok
              THEN pc' = "MapXr" /\ error' = error
              ELSE Raise("KeyError")
    /\ UNCHANGED <<nb, dt, remote, requests, ds, names, derived, fig>>

TitleLeftXr == << Titled("500-hPa Geopotential Heights", 0, "meter") >>

\* the two drawing calls of the height map, in order
LayersXr(c, h, u, v, crs) ==
    << Layer("contour", c, <<GaussianFilter(h, 5)>>, crs),
       Layer("barbs", c, <<Magnitude(u), Magnitude(v)>>, crs) >>

\* Now make the 500-hPa map
MapXr ==
    /\ nb = "xr" /\ pc = "MapXr"
    /\ fig' = [created |-> TRUE,
               projection |-> PlotCrs,
               datacrs |-> DataCrsXr(ds.proj),
               title_left |-> TitleLeftXr,
               title_right |-> ValidTitle(<<vtimes[1]>>),
               layers |-> LayersXr(xy, hght_500, uwnd_500, vwnd_500, DataCrsXr(ds.proj)),
               colorbar_label |-> ""]
    /\ pc' = "done"
    /\ UNCHANGED <<nb, dt, remote, error, requests, ds, names, fields, derived>>

(* --------------------------- specification ---------------------------- *)
Next ==
    \/ Fetch \/ ReadCoords \/ FindLevel \/ SelectFields
    \/ GridDeltas \/ Vorticity \/ Smooth \/ Advection \/ MapVort
    \/ Open \/ Mesh \/ ValidTimes \/ Select \/ MapXr

Spec == Init /\ [][Next]_vars

(* ============================== claims ================================ *)
\* the stored slice a field was computed from
RECURSIVE Leaf(_)
Leaf(t) == IF t.op = "slice" \/ t.args = <<>> THEN t ELSE Leaf(t.args[1])

\* the valid times and levels the fetched dataset stores its variables at
StoredTimes == {Num2DateOne(ds.time1[i]) : i \in 1..Len(ds.time1)}
StoredLevels == Range(ds.isobaric)

AllSelected == hght_500 # Unbound /\ uwnd_500 # Unbound /\ vwnd_500 # Unbound
NoneSelected == hght_500 = Unbound /\ uwnd_500 = Unbound /\ vwnd_500 = Unbound

\* the run is past its selection statements, completed or not
SelectionOver ==
    /\ ds # NoData
    /\ pc \notin {"ReadCoords", "FindLevel", "SelectFields", "Mesh", "ValidTimes", "Select"}

\* C1: whenever the fetched dataset stores the desired valid time dt and the
\* 500 hPa level, at whatever positions, the selected height, u-wind and
\* v-wind are the slices stored at (dt, 500).
C1_SelectsStoredSlice ==
    (AllSelected /\ dt \in StoredTimes /\ 500 \in StoredLevels) =>
        /\ Leaf(hght_500) =
               StoredSlice("Geopotential_height_isobaric", dt, 500, ds.grid)
        /\ Leaf(uwnd_500) =
               StoredSlice("u-component_of_wind_isobaric", dt, 500, ds.grid)
        /\ Leaf(vwnd_500) =
               StoredSlice("v-component_of_wind_isobaric", dt, 500, ds.grid)

\* C2: when the fetched dataset (with all three variables) does not store the
\* 500 hPa level, or does not store the desired valid time dt, selection
\* fails: the run is aborted and no slice has been returned.
C2_AbsentLabelFails ==
    (/\ SelectionOver
     /\ VarNames \subseteq ds.variables
     /\ (500 \notin StoredLevels \/ dt \notin StoredTimes)) =>
        pc = "aborted" /\ NoneSelected

\* every array bound so far that takes part in a calculation or a drawing call
FieldsInUse ==
    {t \in {hght_500, uwnd_500, vwnd_500, deltas, f, avor, vort_adv} : t # Unbound}
        \cup UNION {Range(fig.layers[i].fields) : i \in 1..Len(fig.layers)}

CoordsInUse ==
    {t \in {lonlat, xy} : t # Unbound}
        \cup {fig.layers[i].coords : i \in 1..Len(fig.layers)}

NothingFetched ==
    /\ ds = NoData /\ NoneSelected
    /\ lonlat = Unbound /\ xy = Unbound /\ vtime = NoArray /\ vtimes = <<>>
    /\ lev_500 = <<>>

NothingDerived ==
    deltas = Unbound /\ f = Unbound /\ avor = Unbound /\ vort_adv = Unbound

CrsOfCoords(c) ==
    IF c.op = "lon/lat" THEN PlateCarree
    ELSE Crs("LambertConformal", ds.proj.latitude_of_projection_origin,
             ds.proj.longitude_of_central_meridian,
             <<ds.proj.standard_parallel>>, SphereGlobe(ds.proj.earth_radius))

\* C6: in a finished run every layer is drawn with the reference system its
\* coordinate arrays are expressed in, the axes use the fixed display
\* projection, and the native descriptor carries the product's attributes.
C6_LayersCarryTheirCrs ==
    pc = "done" =>
        /\ \A i \in 1..Len(fig.layers) :
               fig.layers[i].transform = CrsOfCoords(fig.layers[i].coords)
        /\ fig.projection =
               Crs("LambertConformal", 45, -100, <<30, 60>>, DefaultGlobe)
        /\ fig.datacrs = CrsOfCoords(CoordPair("x/y", ds.grid, "meter"))

\* the unsmoothed absolute vorticity as the notebook computes it
RawAvor ==
    Apply("add", 0,
          <<Apply("vorticity", 0, <<uwnd_500, vwnd_500, deltas>>, "1/s", 0), f>>,
          "1/s", 0)

\* C7: in the vorticity notebook the grid spacings come from lon/lat; the
\* vorticity is computed from the unsmoothed winds and those spacings, with
\* the Coriolis term added; the filter is applied to that sum; the advection
\* takes the filtered field, the same unsmoothed winds and the same spacings;
\* each step happens after the ones it reads; and the vorticity contours
\* draw the very field that was advected.
C7_DerivationOrder ==
    nb = "vort" =>
        /\ deltas # Unbound =>
               /\ deltas.op = "lat_lon_grid_deltas" /\ deltas.args = <<lonlat>>
               /\ f.args = <<lonlat>> /\ AllSelected
        /\ \A w \in {uwnd_500, vwnd_500} \ {Unbound} :
               w.op = "quantity" /\ w.args[1].op = "slice"
        /\ avor # Unbound => deltas # Unbound /\ f # Unbound
        /\ pc = "Smooth" => avor = RawAvor
        /\ pc \in {"Advection", "MapVort", "done"} =>
               /\ avor.op = "quantity" /\ avor.units = "1/s"
               /\ avor.args[1].op = "gaussian_filter"
               /\ avor.args[1].args = <<RawAvor>>
        /\ vort_adv = Unbound <=> pc \notin {"MapVort", "done"}
        /\ vort_adv # Unbound =>
               /\ vort_adv.args[1].op = "advection"
               /\ vort_adv.args[1].args = <<avor, uwnd_500, vwnd_500, deltas>>
        /\ pc = "done" =>
               /\ fig.layers[2].fields[1].args = <<avor>>
               /\ fig.layers[3].fields[1].args = <<vort_adv>>
               /\ vort_adv.args[1].args[1] = fig.layers[2].fields[1].args[1]

\* a finished vorticity map
C7_Witness ==
    /\ nb = "vort" /\ pc = "done"
    /\ fig.layers[2].kind = "contour" /\ fig.layers[3].kind = "contourf"
    /\ avor.args[1].sigma = 3

\* C8: in the finished vorticity map the contoured vorticity and the filled
\* advection are multiplied by the powers of ten the left title names for
\* them, and are quantities of the units the title names.
C8_ScalesMatchTitle ==
    (nb = "vort" /\ pc = "done") =>
        /\ fig.layers[2].fields[1].scale = fig.title_left[2].exp10
        /\ fig.layers[2].fields[1].units = fig.title_left[2].units
        /\ fig.layers[3].fields[1].scale = fig.title_left[3].exp10
        /\ fig.layers[3].fields[1].args[1].units = fig.title_left[3].units

SameProduct(d1, d2) ==
    /\ d1.year = d2.year /\ d1.month = d2.month
    /\ d1.day = d2.day /\ d1.hour = d2.hour

====
